---------------------------- MODULE Spec2Model ----------------------------
(***************************************************************************)
(* Model of rtnorm.c: pseudorandom numbers from a truncated Gaussian        *)
(* (Chopin's table algorithm, C translation by A. R. Rogers).               *)
(*                                                                         *)
(* Numbers.  A C double is modelled as a fixed-point integer: a position,   *)
(* a logarithm or an exponential variate v is the integer v * Scale, a      *)
(* density y is the integer y * YScale.  IEEE special values that the code  *)
(* can produce are kept as the distinct values Inf (-log(0)) and NaN        *)
(* (0 * Inf, 0 / 0); Undef is the content of a local that was never         *)
(* assigned.  Rounding of doubles is not modelled.                          *)
(*                                                                         *)
(* Table.  rtnorm_data.h (x, yu, ncell) is not among the source files; the  *)
(* tables below are a 14-cell table with the structure the specification    *)
(* describes (4001 cells in the original), and N, INVH, I0 and the split    *)
(* index of yl take the values that belong to this table.                   *)
(***************************************************************************)
EXTENDS Integers, Sequences, FiniteSets

(***************************** bounds of the model *************************)
\* resolution of the random source: gsl_rng_uniform yields j/D, 0 <= j < D
D == 16
\* outputs of the random source that one run may consume
MaxDraws == 5
\* frames of rtnorm the call stack may hold
MaxDepth == 3

(***************************** number representation ***********************)
Scale == 60
YScale == 100000
Inf == 900000
NaN == 900001
Undef == 900002

IsNum(v) == v \notin {Inf, NaN, Undef}

Abs(v) == IF v < 0 THEN -v ELSE v

\* unary minus of a double
Neg(v) == IF IsNum(v) THEN -v ELSE v

\* C division of doubles p / q for q # 0, kept to the model's resolution
TruncDiv(p, q) ==
    IF (p >= 0) = (q > 0) THEN Abs(p) \div Abs(q) ELSE -(Abs(p) \div Abs(q))

\* log(p / q) for integers p, q > 0, in units of 1/1000
RECURSIVE LnMilli(_, _)
LnMilli(p, q) ==
    IF p >= 2 * q THEN 693 + LnMilli(p, 2 * q)
    ELSE IF p < q THEN LnMilli(2 * p, q) - 693
    ELSE LET t  == ((p - q) * 1000) \div (p + q)
             t2 == (t * t) \div 1000
             t3 == (t2 * t) \div 1000
             t5 == (t3 * t2) \div 1000
         IN  2 * (t + t3 \div 3 + t5 \div 5)

\* log(p / q) in units of 1/Scale
Ln(p, q) == (LnMilli(p, q) * Scale) \div 1000

(***************************** design variables ****************************)
\* initial value of the global N, the index of the right tail (4001)
NInit == 14
\* xmin = -2.00443204036 and xmax = 3.48672170399, in units of 1/Scale
xmin == -120
xmax == 209
kmin == 5
\* 1/h, h the minimal width of a cell (1631.73284006): here h = 1/4
INVH == 4
\* -floor(x(0)/h) (3271)
I0 == 8
\* log(2*pi) = 1.837877066409345, in units of 1/Scale
ALPHA == 110
\* yl0 = 0.053513975472 and ylN = 0.000914116389555, in units of 1/YScale
yl0 == 5351
ylN == 91
\* cells up to this index lie left of the mode (1953)
SplitCell == 5

(***************************** the table ************************************)
xData == <<-120, -90, -70, -50, -32, -15, 0, 15, 32, 50, 70, 90, 115, 150, 209>>
yuData == <<12952, 20200, 28191, 34605, 38667, 39894, 39894, 38667, 34605,
            28191, 20200, 12952, 6356, 1753>>

\* cell boundaries x[0..N], strictly increasing from xmin to xmax
x == [c \in 0..(Len(xData) - 1) |-> xData[c + 1]]
\* upper bound of the density on cell c
yu == [c \in 0..(Len(yuData) - 1) |-> yuData[c + 1]]
\* ncell[i]: the cell that holds the abscissa (i - I0) / INVH
ncell == [i \in 0..(I0 + (xmax * INVH) \div Scale) |->
            LET below == {c \in 0..(Len(yuData) - 1) :
                            x[c] * INVH <= (i - I0) * Scale}
            IN  IF below = {} THEN 0
                ELSE CHOOSE c \in below : \A o \in below : o <= c]
xsize == Len(xData)

\* A read outside a table is undefined behaviour; the actions below stop the
\* run in pc = "ub" when one happens, so the value given here is never used.
XAt(c) == IF c \in DOMAIN x THEN x[c] ELSE 0
YuAt(c) == IF c \in DOMAIN yu THEN yu[c] ELSE 0
NcellAt(i) == IF i \in DOMAIN ncell THEN ncell[i] ELSE 0

(***************************** state ****************************************)
VARIABLES
    N,       \* the global int N (rtnorm.c:42)
    tape,    \* outputs of the generator since it was seeded, as far as drawn
    pos,     \* number of outputs consumed: the generator's state
    phase,   \* 1: the first run, 2: the run repeated from the same seed
    mode,    \* what the second run is called with: "same" or "std"
    args,    \* the caller's arguments (a, b, mu, sigma)
    stack,   \* active frames of rtnorm, each with its parameters a, b, mu, sigma
    pc,      \* where the innermost frame stands
    r,       \* local r of the innermost frame
    stop,    \* local stop of the innermost frame
    ka,      \* local ka
    kb,      \* local kb
    k,       \* local k
    ret,     \* value returned by the last return statement
    out1,    \* value the first run returned
    pos1,    \* generator state the first run left
    used,    \* history: samplers that ran an iteration in this run
    nrec,    \* history: recursive calls made in this run
    nscale,  \* history: times the affine map was applied on entry and on exit
    reads    \* history: table positions read by the last step

vars == <<N, tape, pos, phase, mode, args, stack, pc, r, stop, ka, kb, k, ret,
          out1, pos1, used, nrec, nscale, reads>>

\* the outputs of gsl_rng_uniform explored: 0, 1/4, 1/2, 3/4 and the largest
Draws == {0, D \div 4, D \div 2, (3 * D) \div 4, D - 1}

NoReads == [x |-> {}, yu |-> {}, ncell |-> {}, yl |-> {}]

InBounds(rd) ==
    /\ rd.x \subseteq DOMAIN x
    /\ rd.yu \subseteq DOMAIN yu
    /\ rd.ncell \subseteq DOMAIN ncell

(***************************** the random source ****************************)
\* -log(gsl_rng_uniform(gen)) for the draw j/D; -log(0) is +Inf
NegLog(j) == IF j = 0 THEN Inf ELSE -Ln(j, D)

\* gsl_ran_gaussian_ziggurat(gen, 1): the draw j spread over (-3, 3)
Gaussian(j) == ((2 * j - (D - 1)) * 3 * Scale) \div D

(***************************** Scaler ***************************************)
Scaled(mu, sigma) == mu # 0 \/ sigma # Scale

ScaleIn(v, mu, sigma) ==
    IF Scaled(mu, sigma) THEN ((v - mu) * Scale) \div sigma ELSE v

ScaleOut(v, mu, sigma) ==
    IF Scaled(mu, sigma) /\ IsNum(v) THEN (v * sigma) \div Scale + mu ELSE v

(***************************** RegionDispatcher *****************************)
\* mutant: the check lets a = b through
InvalidIntervalStrict(a, b) == a > b

InvalidInterval(a, b) == a >= b

\* mutant: folds also when |a| = |b|
FoldCondWeak(a, b) == Abs(a) >= Abs(b)

FoldCond(a, b) == Abs(a) > Abs(b)

\* mutant: the recursive call is given mu and sigma again
FoldFrameKeepScale(a, b, mu, sigma) ==
    [a |-> -b, b |-> -a, mu |-> mu, sigma |-> sigma]

\* the arguments of the recursive call rtnorm(gen, -b, -a, 0.0, 1.0)
FoldFrame(a, b, mu, sigma) == [a |-> -b, b |-> -a, mu |-> 0, sigma |-> Scale]

\* i = I0 + floor(v * INVH)
Quantize(v) == I0 + (v * INVH) \div Scale

Ka(a) == NcellAt(Quantize(a))

Kb(b) == IF b >= xmax THEN N ELSE NcellAt(Quantize(b))

KbReads(b) == IF b >= xmax THEN {} ELSE {Quantize(b)}

\* mutant: the left tail is recognised by b, not a
RouteByRightBound(a, b) ==
    IF a > xmax THEN "rtexp"
    ELSE IF b < xmin THEN "gauss"
    ELSE IF Abs(Kb(b) - Ka(a)) < kmin THEN "rtexp"
    ELSE "bulk"

\* mutant: kmin cells are still too few
RouteOffByOne(a, b) ==
    IF a > xmax THEN "rtexp"
    ELSE IF a < xmin THEN "gauss"
    ELSE IF Abs(Kb(b) - Ka(a)) <= kmin THEN "rtexp"
    ELSE "bulk"

\* the branch taken by a frame that neither exits nor recurses
Route(a, b) ==
    IF a > xmax THEN "rtexp"
    ELSE IF a < xmin THEN "gauss"
    ELSE IF Abs(Kb(b) - Ka(a)) < kmin THEN "rtexp"
    ELSE "bulk"

\* mutant: stop keeps its value from the previous call (a static local)
StopStale == stop

StopInit == FALSE

(***************************** yl *******************************************)
\* mutant: the rightmost rectangle is not treated apart
ylNoLast(c) ==
    IF c = 0 THEN [v |-> yl0, rd |-> {}]
    ELSE IF c <= SplitCell THEN [v |-> YuAt(c - 1), rd |-> {c - 1}]
    ELSE [v |-> YuAt(c + 1), rd |-> {c + 1}]

\* yl(c): the value returned and the positions of yu it reads
yl(c) ==
    IF c = 0 THEN [v |-> yl0, rd |-> {}]
    ELSE IF c = N - 1 THEN [v |-> ylN, rd |-> {}]
    ELSE IF c <= SplitCell THEN [v |-> YuAt(c - 1), rd |-> {c - 1}]
    ELSE [v |-> YuAt(c + 1), rd |-> {c + 1}]

(***************************** rtexp ****************************************)
\* One pass of the do-while loop of rtexp for the draws j1/D and j2/D.
\* expab = expm1(-a(b-a)) and z = log(1 + u*expab) falls monotonically from
\* 0 at u = 0 towards -a(b-a) as u -> 1; the draw j1 is placed on that range
\* at z = -a(b-a) * j1/D, held in units of 1/Scale^2.
RtexpStep(a, b, j1, j2) ==
    LET twoasq == 2 * a * a
        zmag   == (Abs(a) * (b - a) * j1) \div D
        z      == IF a > 0 THEN -zmag ELSE zmag
        e      == NegLog(j2)
        \* twoasq*e <= z*z; with e = Inf the product is Inf or NaN: false
        again  == IF e = Inf THEN FALSE ELSE twoasq * e * Scale <= z * z
    IN  [again |-> again,
         r     |-> IF a = 0 THEN NaN ELSE a - TruncDiv(z, a)]

(***************************** Gaussian tail loop ***************************)
GaussStep(a, b, j) ==
    LET g == Gaussian(j)
    IN  [r |-> g, stop |-> (g >= a) /\ (g <= b)]

(***************************** Chopin's table loop **************************)
\* sim*sim + 2*log(simy) + ALPHA < 0, simy = yu[c] * j/D
BelowPdf(sim, c, j) ==
    LET simy == (YuAt(c) * j) \div D
    IN  sim * sim + Scale * (2 * Ln(simy, YScale) + ALPHA) < 0

\* simy < yl(c), simy = yu[c] * j/D
BelowYl(c, j) == YuAt(c) * j < yl(c).v * D

\* the cell drawn: floor(u * (kb - ka + 1)) + ka
DrawCell(lo, hi, j) == (j * (hi - lo + 1)) \div D + lo

\* the right tail, k == N
TailStep(a, b, j2, j3) ==
    LET lbound == XAt(xsize - 1)
        e1     == NegLog(j2)
        e      == NegLog(j3)
        z      == IF e1 = Inf THEN Inf ELSE (e1 * Scale) \div lbound
        squeeze == IF z = Inf THEN e = Inf
                   ELSE IF e = Inf THEN TRUE
                   ELSE z * z <= 2 * e * Scale
        inside == IF z = Inf THEN FALSE ELSE z < b - lbound
        acc    == squeeze /\ inside
    IN  [n |-> 3, stop |-> acc, r |-> IF acc THEN lbound + z ELSE Undef,
         reads |-> [NoReads EXCEPT !.x = {xsize - 1}]]

\* the two leftmost and the two rightmost regions
EdgeStep(a, b, c, j2, j3) ==
    LET sim == XAt(c) + ((XAt(c + 1) - XAt(c)) * j2) \div D
        in  == (sim >= a) /\ (sim <= b)
        acc == in /\ (BelowYl(c, j3) \/ BelowPdf(sim, c, j3))
    IN  [n |-> IF in THEN 3 ELSE 2, stop |-> acc,
         r |-> IF acc THEN sim ELSE Undef,
         reads |-> [NoReads EXCEPT !.x = {c, c + 1},
                                   !.yu = IF in THEN {c} \cup yl(c).rd ELSE {},
                                   !.yl = IF in THEN {c} ELSE {}]]

\* all the other boxes
InnerStep(a, b, c, j2, j3) ==
    LET d    == XAt(c + 1) - XAt(c)
        ylk  == yl(c).v
        fast == BelowYl(c, j2)
        sim  == XAt(c) + (d * j3) \div D
        acc  == fast \/ BelowPdf(sim, c, j2)
    IN  [n |-> IF fast THEN 2 ELSE 3, stop |-> acc,
         r |-> IF fast THEN XAt(c) + (j2 * d * YuAt(c)) \div (D * ylk)
               ELSE IF acc THEN sim ELSE Undef,
         reads |-> [NoReads EXCEPT !.x = {c, c + 1},
                                   !.yu = {c} \cup yl(c).rd,
                                   !.yl = {c}]]

\* One pass of while(!stop) of the table loop for the draws j1/D, j2/D, j3/D:
\* the cell, the draws consumed, whether it accepts, r, and the table reads.
BulkStep(a, b, lo, hi, j1, j2, j3) ==
    LET c == DrawCell(lo, hi, j1)
        s == IF c = N THEN TailStep(a, b, j2, j3)
             ELSE IF (c <= lo + 1) \/ (c >= hi - 1 /\ b < xmax)
                  THEN EdgeStep(a, b, c, j2, j3)
             ELSE InnerStep(a, b, c, j2, j3)
    IN  [k |-> c, n |-> s.n, stop |-> s.stop, r |-> s.r, reads |-> s.reads]

(***************************** drawing from the generator *******************)
\* The run consumes the n draws ds[1..n]: they are the generator's next
\* outputs (those already on the tape when the seed is replayed).
Take(ds, n) ==
    /\ pos + n <= MaxDraws
    /\ \A i \in 1..3 : i > n => ds[i] = 0
    /\ \A i \in 1..n : pos + i <= Len(tape) => tape[pos + i] = ds[i]
    /\ tape' = IF pos + n <= Len(tape) THEN tape
               ELSE SubSeq(tape, 1, pos) \o SubSeq(ds, 1, n)
    /\ pos' = pos + n

Top == stack[Len(stack)]

SetTop(f) == [stack EXCEPT ![Len(stack)] = f]

(***************************** inputs ***************************************)
\* standardized intervals (a', b'), in units of 1/Scale
StdPairs ==
    { <<0, 0>>, <<60, 30>>,                        \* a >= b
      <<216, 240>>, <<210, 300>>,                  \* right of xmax
      <<-150, 150>>, <<-150, 216>>,                \* a < xmin, |a| <= |b|
      <<-180, -150>>, <<-240, -216>>, <<-120, 60>>, \* |a| > |b|
      <<0, 1>>, <<30, 36>>, <<-2, 5>>, <<-1, 1>>, <<209, 240>>,  \* few cells
      <<-120, 180>>, <<20, 216>>, <<30, 120>>, <<0, 209>>, <<-20, 140>> }

\* (mu, sigma); sigma > 0
Scalings == { <<0, Scale>>, <<2 * Scale, 3 * Scale>> }

\* the caller's arguments whose standardized interval is p
CallerArgs(p, sc) ==
    [a |-> (p[1] * sc[2]) \div Scale + sc[1],
     b |-> (p[2] * sc[2]) \div Scale + sc[1],
     mu |-> sc[1], sigma |-> sc[2]]

\* the arguments of the second run
SecondArgs ==
    IF mode = "same" THEN args
    ELSE [a |-> ScaleIn(args.a, args.mu, args.sigma),
          b |-> ScaleIn(args.b, args.mu, args.sigma),
          mu |-> 0, sigma |-> Scale]

NoScale == [in |-> 0, out |-> 0]

Init ==
    /\ N = NInit
    /\ tape = << >>
    /\ pos = 0
    /\ phase = 1
    /\ args \in {CallerArgs(p, sc) : p \in StdPairs, sc \in Scalings}
    /\ mode \in IF Scaled(args.mu, args.sigma) THEN {"same", "std"} ELSE {"same"}
    /\ stack = <<args>>
    /\ pc = "call"
    /\ r = Undef
    /\ stop = FALSE
    /\ ka = 0
    /\ kb = 0
    /\ k = 0
    /\ ret = Undef
    /\ out1 = Undef
    /\ pos1 = 0
    /\ used = {}
    /\ nrec = 0
    /\ nscale = NoScale
    /\ reads = NoReads

(***************************** rtnorm ***************************************)
\* rtnorm.c:59-111: a frame is entered: its locals, the scaling, the check of
\* a < b, the symmetry recursion and the choice of the sampler.
Entry ==
    /\ pc = "call"
    /\ LET f  == Top
           a1 == ScaleIn(f.a, f.mu, f.sigma)
           b1 == ScaleIn(f.b, f.mu, f.sigma)
           g  == [f EXCEPT !.a = a1, !.b = b1]
           chopin == ~InvalidInterval(a1, b1) /\ ~FoldCond(a1, b1)
                     /\ ~(a1 > xmax) /\ ~(a1 < xmin)
           rd == IF chopin
                 THEN [NoReads EXCEPT !.ncell = {Quantize(a1)} \cup KbReads(b1)]
                 ELSE NoReads
       IN  /\ r' = Undef
           /\ stop' = StopInit
           /\ nscale' = IF Scaled(f.mu, f.sigma)
                        THEN [nscale EXCEPT !.in = @ + 1] ELSE nscale
           /\ reads' = rd
           /\ ka' = IF chopin THEN Ka(a1) ELSE ka
           /\ kb' = IF chopin THEN Kb(b1) ELSE kb
           /\ IF InvalidInterval(a1, b1)
              THEN /\ pc' = "exit"
                   /\ stack' = SetTop(g)
                   /\ nrec' = nrec
              ELSE IF FoldCond(a1, b1)
              THEN /\ Len(stack) < MaxDepth
                   /\ pc' = "call"
                   /\ stack' = Append(SetTop(g), FoldFrame(a1, b1, f.mu, f.sigma))
                   /\ nrec' = nrec + 1
              ELSE /\ pc' = IF InBounds(rd) THEN Route(a1, b1) ELSE "ub"
                   /\ stack' = SetTop(g)
                   /\ nrec' = nrec
    /\ UNCHANGED <<N, tape, pos, phase, mode, args, k, ret, out1, pos1, used>>

\* rtnorm.c:84, 109-110 and 197-207: one pass of the loop of rtexp; when it
\* ends, r is assigned, and on the few-cells branch stop is set.
RtexpIter ==
    /\ pc = "rtexp"
    /\ \E ds \in [1..3 -> Draws] :
         LET s == RtexpStep(Top.a, Top.b, ds[1], ds[2])
         IN  /\ Take(ds, 2)
             /\ used' = used \cup {"rtexp"}
             /\ reads' = NoReads
             /\ IF s.again
                THEN UNCHANGED <<pc, r, stop>>
                ELSE /\ pc' = "unscale"
                     /\ r' = s.r
                     /\ stop' = IF Top.a > xmax THEN stop ELSE TRUE
    /\ UNCHANGED <<N, phase, mode, args, stack, ka, kb, k, ret, out1, pos1,
                   nrec, nscale>>

\* rtnorm.c:89-92: one pass of the Gaussian tail loop
GaussIter ==
    /\ pc = "gauss"
    /\ ~stop
    /\ \E ds \in [1..3 -> Draws] :
         LET s == GaussStep(Top.a, Top.b, ds[1])
         IN  /\ Take(ds, 1)
             /\ r' = s.r
             /\ stop' = s.stop
    /\ used' = used \cup {"gauss"}
    /\ reads' = NoReads
    /\ UNCHANGED <<N, phase, mode, args, stack, pc, ka, kb, k, ret, out1, pos1,
                   nrec, nscale>>

\* rtnorm.c:113-168: one pass of the table loop
BulkIter ==
    /\ pc = "bulk"
    /\ ~stop
    /\ \E ds \in [1..3 -> Draws] :
         LET s == BulkStep(Top.a, Top.b, ka, kb, ds[1], ds[2], ds[3])
         IN  /\ Take(ds, s.n)
             /\ k' = s.k
             /\ reads' = s.reads
             /\ IF ~InBounds(s.reads)
                THEN pc' = "ub" /\ UNCHANGED <<r, stop>>
                ELSE /\ pc' = pc
                     /\ stop' = s.stop
                     /\ r' = IF s.stop THEN s.r ELSE r
    /\ used' = used \cup {"bulk"}
    /\ UNCHANGED <<N, phase, mode, args, stack, ka, kb, ret, out1, pos1,
                   nrec, nscale>>

\* rtnorm.c:89, 113: the loop condition fails, control reaches line 171
LoopExit ==
    /\ pc \in {"gauss", "bulk"}
    /\ stop
    /\ pc' = "unscale"
    /\ reads' = NoReads
    /\ UNCHANGED <<N, tape, pos, phase, mode, args, stack, r, stop, ka, kb, k,
                   ret, out1, pos1, used, nrec, nscale>>

\* rtnorm.c:171-175 and 79: the result is scaled back and returned; a frame
\* that made the recursive call negates what it gets into its own r.
Return ==
    /\ pc = "unscale"
    /\ LET f == Top
           v == ScaleOut(r, f.mu, f.sigma)
       IN  /\ ret' = v
           /\ nscale' = IF Scaled(f.mu, f.sigma)
                        THEN [nscale EXCEPT !.out = @ + 1] ELSE nscale
           /\ IF Len(stack) > 1
              THEN /\ stack' = SubSeq(stack, 1, Len(stack) - 1)
                   /\ r' = Neg(v)
                   /\ pc' = "unscale"
              ELSE /\ pc' = "done"
                   /\ UNCHANGED <<stack, r>>
    /\ reads' = NoReads
    /\ UNCHANGED <<N, tape, pos, phase, mode, args, stop, ka, kb, k, out1,
                   pos1, used, nrec>>

(***************************** the caller ***********************************)
\* The generator is set back to the state the first run started from and
\* rtnorm is called again (test/xrtnorm.c:30-37 calls it in a loop).
Replay ==
    /\ pc = "done"
    /\ phase = 1
    /\ phase' = 2
    /\ out1' = ret
    /\ pos1' = pos
    /\ pos' = 0
    /\ stack' = <<SecondArgs>>
    /\ pc' = "call"
    /\ used' = {}
    /\ nrec' = 0
    /\ nscale' = NoScale
    /\ reads' = NoReads
    /\ UNCHANGED <<N, tape, mode, args, r, stop, ka, kb, k, ret>>

Next ==
    \/ Entry
    \/ RtexpIter
    \/ GaussIter
    \/ BulkIter
    \/ LoopExit
    \/ Return
    \/ Replay

Spec == Init /\ [][Next]_vars

(***************************** properties ***********************************)
Samplers == {"rtexp", "gauss", "bulk"}

\* the outermost frame has run lines 64-68: its a, b are standardized
BottomEntered == ~(Len(stack) = 1 /\ pc = "call")

\* the arguments the current run was called with
RunArgs == IF phase = 1 THEN args ELSE SecondArgs

Between(lo, v, hi) == IsNum(v) /\ lo <= v /\ v <= hi

\* C1: every value rtnorm returns lies in the truncation interval: the
\* standardized sample r of a frame lies in that frame's [a', b'] on every
\* accepting path, and the value returned to the caller lies in the caller's
\* [a, b].
C1_SampleInInterval ==
    /\ pc = "unscale" => Between(Top.a, r, Top.b)
    /\ pc = "done" => Between(RunArgs.a, ret, RunArgs.b)

\* C2: when the standardized bounds satisfy a >= b the call ends in the
\* InvalidInterval outcome: no sample is returned, no recursive call is made,
\* no sampling loop is entered and no draw is consumed.
C2_InvalidIntervalExits ==
    /\ (BottomEntered /\ stack[1].a >= stack[1].b) => pc = "exit"
    /\ pc = "exit" =>
          /\ stack[1].a >= stack[1].b
          /\ Len(stack) = 1
          /\ nrec = 0
          /\ used = {}
          /\ pos = 0
          /\ r = Undef
          /\ ret = Undef

C2_Witness ==
    /\ pc = "exit"
    /\ stack[1].a = stack[1].b
    /\ Scaled(args.mu, args.sigma)

\* C3: at every iteration of a rejection loop a valid call reaches (rtexp,
\* Gaussian tail, table) some outcome of the draws is accepted and yields a
\* sample, so that a fair random source makes the call return; this includes
\* a narrow interval that starts at zero.
C3_EveryLoopCanAccept ==
    /\ pc = "rtexp" =>
          \E j1, j2 \in Draws :
              LET s == RtexpStep(Top.a, Top.b, j1, j2)
              IN  ~s.again /\ IsNum(s.r)
    /\ (pc = "gauss" /\ ~stop) =>
          \E j \in Draws : GaussStep(Top.a, Top.b, j).stop
    /\ (pc = "bulk" /\ ~stop) =>
          \E j1, j2, j3 \in Draws :
              LET s == BulkStep(Top.a, Top.b, ka, kb, j1, j2, j3)
              IN  s.stop /\ IsNum(s.r)

\* C4: rtexp is never invoked with the left bound a = 0, neither on the
\* right-tail route nor on the few-cells route.
C4_RtexpLeftBoundNonZero == pc = "rtexp" => Top.a # 0

\* C5: symmetry folding recurses at most once: a frame with |a| > |b| calls
\* rtnorm exactly once, on (-b, -a, 0, 1), and negates what it gets; the
\* callee has a < b and |a| <= |b|, so it neither exits nor recurses.
C5_FoldsAtMostOnce ==
    /\ Len(stack) <= 2
    /\ nrec <= 1
    /\ Len(stack) = 2 =>
          LET c == stack[1]
              f == stack[2]
          IN  /\ c.a < c.b /\ Abs(c.a) > Abs(c.b)
              /\ f.a = -c.b /\ f.b = -c.a /\ f.mu = 0 /\ f.sigma = Scale
              /\ f.a < f.b /\ Abs(f.a) <= Abs(f.b)
              /\ nrec = 1
              /\ pc # "exit"
    /\ (BottomEntered /\ pc # "exit") =>
          nrec = IF Abs(stack[1].a) > Abs(stack[1].b) THEN 1 ELSE 0
    /\ (pc = "unscale" /\ Len(stack) = 1 /\ nrec = 1) => r = Neg(ret)

C5_Witness ==
    /\ pc = "unscale"
    /\ Len(stack) = 1
    /\ nrec = 1
    /\ IsNum(r)
    /\ r < 0

\* C6 as stated: a valid interval entirely left of xmin (a < b < xmin) is
\* routed to the Gaussian tail sampler.
C6_LeftOfXminIsGaussian ==
    (BottomEntered /\ stack[1].a < stack[1].b /\ stack[1].b < xmin
        /\ pc \in Samplers) => pc = "gauss"

\* C6 amended: a frame with a < xmin that needs no folding (|a| <= |b|, so
\* b >= -a > -xmin) is routed to the Gaussian tail sampler, while an interval
\* entirely left of xmin is folded to (-b, -a) and is sampled by rtexp or the
\* table loop, never by the Gaussian tail sampler.
C6_GaussianRoute ==
    /\ (pc # "call" /\ Top.a < Top.b /\ Abs(Top.a) <= Abs(Top.b)
            /\ Top.a < xmin) =>
          /\ pc \in {"gauss", "unscale", "done"}
          /\ used \subseteq {"gauss"}
          /\ Top.b >= -Top.a
    /\ (BottomEntered /\ stack[1].a < stack[1].b /\ stack[1].b < xmin) =>
          /\ pc # "gauss"
          /\ "gauss" \notin used
          /\ pc \in Samplers => (Len(stack) = 2 /\ Top.a > -xmin)

C6_Witness ==
    /\ Len(stack) = 2
    /\ stack[1].a < stack[1].b
    /\ stack[1].b < xmin
    /\ pc = "unscale"
    /\ used = {"rtexp"}

\* C7: after folding exactly one sampler is selected, in this order: a > xmax
\* rtexp; else a < xmin the Gaussian tail loop; else with ka = ncell[I0 +
\* floor(a*INVH)] and kb = N if b >= xmax, ncell[I0 + floor(b*INVH)] otherwise,
\* |kb - ka| < kmin rtexp and no pass of the table loop, else the table loop
\* on the cells ka..kb.
C7_DispatchRule ==
    /\ Cardinality(used) <= 1
    /\ pc = "done" => Cardinality(used) = 1
    /\ pc \in Samplers =>
          LET a == Top.a
              b == Top.b
              eka == ncell[I0 + (a * INVH) \div Scale]
              ekb == IF b >= xmax THEN N ELSE ncell[I0 + (b * INVH) \div Scale]
          IN  /\ Abs(a) <= Abs(b)
              /\ used \subseteq {pc}
              /\ IF a > xmax THEN pc = "rtexp"
                 ELSE IF a < xmin THEN pc = "gauss"
                 ELSE IF Abs(ekb - eka) < kmin THEN pc = "rtexp"
                 ELSE /\ pc = "bulk"
                      /\ ka = eka
                      /\ kb = ekb
                      /\ used # {} => (ka <= k /\ k <= kb)

C7_Witness ==
    /\ pc = "unscale"
    /\ Top.a >= xmin
    /\ Top.a <= xmax
    /\ Top.a # 0
    /\ Abs(kb - ka) < kmin
    /\ used = {"rtexp"}
    /\ stop

\* C8: rtnorm is deterministic and keeps no state between calls: called again
\* with the same arguments from the same generator state it returns the same
\* value and leaves the generator in the same state, and no step changes N.
C8_Deterministic ==
    /\ N = NInit
    /\ (phase = 2 /\ mode = "same") => pos <= pos1
    /\ (phase = 2 /\ mode = "same" /\ pc = "done") =>
          (ret = out1 /\ pos = pos1)

C8_Witness ==
    /\ phase = 2
    /\ mode = "same"
    /\ pc = "done"
    /\ pos1 >= 4
    /\ used = {"bulk"}

\* C9: the affine map is applied once on entry and once on exit, also when
\* the call folds (the recursive call runs with mu = 0, sigma = 1): from the
\* same generator state rtnorm(a, b, mu, sigma) equals
\* sigma * rtnorm((a-mu)/sigma, (b-mu)/sigma, 0, 1) + mu, and with
\* (mu, sigma) = (0, 1) bounds and result pass through unchanged.
C9_ScaleInvariance ==
    /\ nscale.in <= 1 /\ nscale.out <= 1
    /\ Len(stack) = 2 => (stack[2].mu = 0 /\ stack[2].sigma = Scale)
    /\ pc = "done" =>
          IF RunArgs.mu # 0 \/ RunArgs.sigma # Scale
          THEN nscale = [in |-> 1, out |-> 1]
          ELSE nscale = NoScale /\ ret = r
    /\ (BottomEntered /\ RunArgs.mu = 0 /\ RunArgs.sigma = Scale) =>
          (stack[1].a = RunArgs.a /\ stack[1].b = RunArgs.b)
    /\ (phase = 2 /\ mode = "std" /\ pc = "done") =>
          out1 = IF IsNum(ret) THEN (args.sigma * ret) \div Scale + args.mu
                 ELSE ret

C9_Witness ==
    /\ phase = 2
    /\ mode = "std"
    /\ pc = "done"
    /\ args.sigma # Scale
    /\ nrec = 1
    /\ IsNum(ret)
    /\ out1 # ret

\* C10: in the table loop 0 <= ka <= k <= kb <= N, and every table access is
\* in bounds: the quantized index of every v in [xmin, xmax] is a position of
\* ncell, x[k], x[k+1] and yu[k] are read only for k <= N-1, yl is never
\* called with k = N, and yl(k) reads yu inside [0, N-1] for k in [0, N-1].
C10_TableAccessInBounds ==
    /\ pc # "ub"
    /\ reads.ncell \subseteq DOMAIN ncell
    /\ reads.x \subseteq 0..N
    /\ reads.x \subseteq DOMAIN x
    /\ reads.yu \subseteq 0..(N - 1)
    /\ reads.yu \subseteq DOMAIN yu
    /\ reads.yl \subseteq 0..(N - 1)
    /\ pc = "bulk" =>
          /\ 0 <= ka /\ ka <= kb /\ kb <= N
          /\ used # {} => (ka <= k /\ k <= kb)
    /\ \A v \in xmin..xmax : Quantize(v) \in DOMAIN ncell
    /\ \A c \in 0..(N - 1) : yl(c).rd \subseteq 0..(N - 1)

C10_Witness ==
    /\ pc = "bulk"
    /\ k = N - 1
    /\ kb = N
    /\ reads.yl = {N - 1}
    /\ reads.x = {N - 1, N}
=============================================================================
